---- MODULE Spec2Model ----
(***************************************************************************)
(* A model of the Postmark template client of src/main.go: six operations  *)
(* (CreateTemplate, GetTemplate, UpdateTemplate, DeleteTemplate,           *)
(* GetTemplates, ValidateTemplate), each building one HTTP request,        *)
(* handing it to http.Client.Do, and turning the response into a result.   *)
(*                                                                         *)
(* Go strings are sequences of characters; "xFF" stands for a byte that is *)
(* not valid UTF-8 and "uFFFD" for the Unicode replacement character.      *)
(* JSON text on the wire is modelled by its syntax tree: a value is a      *)
(* record tagged by t, a string value is a sequence of wire tokens (plain  *)
(* characters or escapes), an object is a function from keys to values.    *)
(***************************************************************************)
EXTENDS Integers, Sequences, FiniteSets, TLC

\* ------------------------------------------------------------------ bounds

\* Calls one caller makes under Spec (arbitrary remote service).
MaxCalls == 2
\* Calls the caller makes under SimSpec (simulated remote service).
MaxSimCalls == 3

\* http.StatusOK
StatusOK == 200

\* Callers under Spec: two goroutines using the client at the same time.
Procs == {"p1", "p2"}
\* The caller under SimSpec: calls issued strictly one after the other.
SimProcs == {"p1"}

\* ------------------------------------------------------------ Go values

\* A Go string literal of plain characters.
Str(c) == <<c>>

\* The zero value of type Template.
ZeroTemplate ==
    [templateID |-> 0, name |-> <<>>, subject |-> <<>>, htmlBody |-> <<>>,
     textBody |-> <<>>, alias |-> <<>>, active |-> FALSE]

\* The zero value of type PostmarkResponse.
ZeroPostmarkResponse == [templateID |-> 0, errorCode |-> 0, message |-> <<>>]

\* The zero value of type TemplatesResponse; nil is the nil slice.
ZeroTemplatesResponse == [templates |-> [k |-> "nil"], totalCount |-> 0]

\* error values: nil, or the value fmt.Errorf builds from a format and its
\* arguments.
NilErr == [k |-> "nil"]
Errorf(format, args) == [k |-> "err", fmt |-> format, args |-> args]

\* ------------------------------------------------------------ JSON text

JNull == [t |-> "null"]
JNum(n) == [t |-> "num", n |-> n]
JStr(s) == [t |-> "str", s |-> s]
JBool(b) == [t |-> "bool", b |-> b]
JArr(a) == [t |-> "arr", a |-> a]
JObj(o) == [t |-> "obj", o |-> o]

\* encoding/json writes a string byte by byte: '<', '>' and '&' as \u00XX
\* escapes, '"' as \", a byte that is not valid UTF-8 as the escape of U+FFFD.
EncodeChar(c) ==
    CASE c = "<" -> "\\u003c"
      [] c = ">" -> "\\u003e"
      [] c = "&" -> "\\u0026"
      [] c = "\"" -> "\\\""
      [] c = "xFF" -> "\\ufffd"
      [] OTHER -> c

\* encoding/json reads an escape back as the character it names.
DecodeToken(k) ==
    CASE k = "\\u003c" -> "<"
      [] k = "\\u003e" -> ">"
      [] k = "\\u0026" -> "&"
      [] k = "\\\"" -> "\""
      [] k = "\\ufffd" -> "uFFFD"
      [] OTHER -> k

EncodeString(s) == [i \in 1..Len(s) |-> EncodeChar(s[i])]
DecodeString(w) == [i \in 1..Len(w) |-> DecodeToken(w[i])]

\* encoding/json matches an object key to a struct field by its tag, exactly
\* or else ignoring case: the keys of this model and their case folding.
Lower ==
    [k \in {"templateID", "TemplateId", "name", "Name", "subject", "Subject",
            "htmlBody", "HtmlBody", "textBody", "TextBody", "alias", "Alias",
            "active", "Active", "errorCode", "ErrorCode", "message",
            "Message", "templates", "Templates", "totalCount", "TotalCount"}
     |-> CASE k \in {"templateID", "TemplateId"} -> "templateid"
           [] k \in {"name", "Name"} -> "name"
           [] k \in {"subject", "Subject"} -> "subject"
           [] k \in {"htmlBody", "HtmlBody"} -> "htmlbody"
           [] k \in {"textBody", "TextBody"} -> "textbody"
           [] k \in {"alias", "Alias"} -> "alias"
           [] k \in {"active", "Active"} -> "active"
           [] k \in {"errorCode", "ErrorCode"} -> "errorcode"
           [] k \in {"message", "Message"} -> "message"
           [] k \in {"templates", "Templates"} -> "templates"
           [] OTHER -> "totalcount"]

Fold(k) == IF k \in DOMAIN Lower THEN Lower[k] ELSE k

\* The keys of object o that encoding/json assigns to the field tagged tag.
KeysFor(o, tag) ==
    IF tag \in DOMAIN o THEN {tag}
    ELSE {k \in DOMAIN o : Fold(k) = Fold(tag)}

\* One JSON value j decoded into a struct field of Go type ty ("int",
\* "string", "bool"): null leaves the zero value, a value of the fitting JSON
\* type is taken, and any other makes the decode fail (UnmarshalTypeError).
\* [ok, v]
FieldValue(j, ty, zero) ==
    CASE j.t = "null" -> [ok |-> TRUE, v |-> zero]
      [] j.t = "num" /\ ty = "int" -> [ok |-> TRUE, v |-> j.n]
      [] j.t = "str" /\ ty = "string" -> [ok |-> TRUE, v |-> DecodeString(j.s)]
      [] j.t = "bool" /\ ty = "bool" -> [ok |-> TRUE, v |-> j.b]
      [] OTHER -> [ok |-> FALSE, v |-> zero]

\* The field decoded from the keys ks of object o that match it: it keeps its
\* zero value when no key does.
FieldFrom(ks, o, ty, zero) ==
    IF ks = {} THEN [ok |-> TRUE, v |-> zero]
    ELSE FieldValue(o[CHOOSE k \in ks : TRUE], ty, zero)

\* Decoding the struct field tagged tag from object o.
DecodeField(o, tag, ty, zero) == FieldFrom(KeysFor(o, tag), o, ty, zero)

\* The Template made of its seven decoded fields (struct tags of lines 15-21).
TemplateOf(id, nm, su, hb, tb, al, ac) ==
    [ok |-> id.ok /\ nm.ok /\ su.ok /\ hb.ok /\ tb.ok /\ al.ok /\ ac.ok,
     v |-> [templateID |-> id.v, name |-> nm.v, subject |-> su.v,
            htmlBody |-> hb.v, textBody |-> tb.v, alias |-> al.v,
            active |-> ac.v]]

\* One JSON value decoded into a Template.
DecodeTemplate(j) ==
    CASE j.t = "null" -> [ok |-> TRUE, v |-> ZeroTemplate]
      [] j.t = "obj" ->
           TemplateOf(DecodeField(j.o, "templateID", "int", 0),
                      DecodeField(j.o, "name", "string", <<>>),
                      DecodeField(j.o, "subject", "string", <<>>),
                      DecodeField(j.o, "htmlBody", "string", <<>>),
                      DecodeField(j.o, "textBody", "string", <<>>),
                      DecodeField(j.o, "alias", "string", <<>>),
                      DecodeField(j.o, "active", "bool", FALSE))
      [] OTHER -> [ok |-> FALSE, v |-> ZeroTemplate]

\* The PostmarkResponse made of its three decoded fields (struct tags of
\* lines 32-34).
PostmarkResponseOf(id, ec, ms) ==
    [ok |-> id.ok /\ ec.ok /\ ms.ok,
     v |-> [templateID |-> id.v, errorCode |-> ec.v, message |-> ms.v]]

\* One JSON value decoded into a PostmarkResponse.
DecodePostmarkResponse(j) ==
    CASE j.t = "null" -> [ok |-> TRUE, v |-> ZeroPostmarkResponse]
      [] j.t = "obj" ->
           PostmarkResponseOf(DecodeField(j.o, "templateID", "int", 0),
                              DecodeField(j.o, "errorCode", "int", 0),
                              DecodeField(j.o, "message", "string", <<>>))
      [] OTHER -> [ok |-> FALSE, v |-> ZeroPostmarkResponse]

\* The slice made of the decoded elements ds of a JSON array.
SliceOf(ds) ==
    [ok |-> \A i \in DOMAIN ds : ds[i].ok,
     v |-> [k |-> "list", l |-> [i \in DOMAIN ds |-> ds[i].v]]]

\* One JSON value decoded into a []Template: null is the nil slice, an array
\* is decoded element by element, any other value fails.
SliceValue(j) ==
    CASE j.t = "null" -> [ok |-> TRUE, v |-> [k |-> "nil"]]
      [] j.t = "arr" -> SliceOf([i \in 1..Len(j.a) |-> DecodeTemplate(j.a[i])])
      [] OTHER -> [ok |-> FALSE, v |-> [k |-> "nil"]]

\* The []Template field decoded from the keys ks of object o that match it:
\* the nil slice when no key does.
SliceFrom(ks, o) ==
    IF ks = {} THEN [ok |-> TRUE, v |-> [k |-> "nil"]]
    ELSE SliceValue(o[CHOOSE k \in ks : TRUE])

\* The TemplatesResponse made of its two decoded fields (struct tags of lines
\* 26-27).
TemplatesResponseOf(ts, tc) ==
    [ok |-> ts.ok /\ tc.ok, v |-> [templates |-> ts.v, totalCount |-> tc.v]]

\* One JSON value decoded into a TemplatesResponse.
DecodeTemplatesResponse(j) ==
    CASE j.t = "null" -> [ok |-> TRUE, v |-> ZeroTemplatesResponse]
      [] j.t = "obj" ->
           TemplatesResponseOf(SliceFrom(KeysFor(j.o, "templates"), j.o),
                               DecodeField(j.o, "totalCount", "int", 0))
      [] OTHER -> [ok |-> FALSE, v |-> ZeroTemplatesResponse]

\* ------------------------------------------------------- response bodies

\* A response body is a byte stream: text that does not begin with a JSON
\* value (json = FALSE), or one JSON value v, possibly followed by more bytes
\* (rest = TRUE).
PlainBody(s) == [json |-> FALSE, text |-> s, v |-> JNull, rest |-> FALSE]
JSONBody(v) == [json |-> TRUE, text |-> "", v |-> v, rest |-> FALSE]
JSONBodyThen(v) == [json |-> TRUE, text |-> "", v |-> v, rest |-> TRUE]

\* The zero value of the struct type shape.
Zero(shape) ==
    CASE shape = "Template" -> ZeroTemplate
      [] shape = "PostmarkResponse" -> ZeroPostmarkResponse
      [] OTHER -> ZeroTemplatesResponse

\* Decoded as it would be were the decoder's error dropped.
DecodedLenient(d) == [err |-> "", v |-> d.v]

\* The error Decode returns for a decoded value d: "" is the nil error.
Decoded(d) == [err |-> IF d.ok THEN "" ELSE "json: cannot unmarshal", v |-> d.v]

\* json.NewDecoder(resp.Body).Decode(&x) for x of the struct type shape: it
\* reads the first JSON value of the stream and nothing after it.  [err, v]
Decode(body, shape) ==
    IF ~body.json
    THEN [err |-> "invalid character", v |-> Zero(shape)]
    ELSE Decoded(CASE shape = "Template" -> DecodeTemplate(body.v)
                   [] shape = "PostmarkResponse" ->
                        DecodePostmarkResponse(body.v)
                   [] OTHER -> DecodeTemplatesResponse(body.v))

\* ioutil.ReadAll(resp.Body) and string(bodyBytes): the bytes as they came.
ReadAll(body) == body

\* Marshal as it would be with the tags of HtmlBody and TextBody exchanged.
MarshalSwapped(template) ==
    JObj("name" :> JStr(EncodeString(template.name))
         @@ "subject" :> JStr(EncodeString(template.subject))
         @@ "htmlBody" :> JStr(EncodeString(template.textBody))
         @@ "textBody" :> JStr(EncodeString(template.htmlBody)))

\* json.Marshal(template): name, subject, htmlBody and textBody always;
\* templateID, alias and active only when not the zero value (omitempty).
Marshal(template) ==
    LET always == [k \in {"name", "subject", "htmlBody", "textBody"} |->
                      JStr(EncodeString(template[k]))]
        id == IF template.templateID # 0
              THEN "templateID" :> JNum(template.templateID) ELSE <<>>
        al == IF template.alias # <<>>
              THEN "alias" :> JStr(EncodeString(template.alias)) ELSE <<>>
        ac == IF template.active
              THEN "active" :> JBool(TRUE) ELSE <<>>
    IN  JObj(always @@ id @@ al @@ ac)

\* ---------------------------------------------------------------- state

VARIABLES
    pc,        \* per caller: "idle", "built" (request built, before
               \* client.Do), "responded" (client.Do has returned), "done"
    op,        \* per caller: the operation it is in
    arg,       \* per caller: the operation's arguments
    req,       \* per caller: the *http.Request it built
    resp,      \* per caller: what client.Do returned (resp, err)
    result,    \* per caller: what the operation returned
    calls,     \* per caller: operations invoked so far
    sent,      \* per caller: requests handed to client.Do so far
    store,     \* the simulated service: templates by id
    nextID,    \* the simulated service: the id it assigns next
    created,   \* ids CreateTemplate has returned, with the Template passed
    disturbed  \* ids an update or delete request has been sent for

vars == <<pc, op, arg, req, resp, result, calls, sent, store, nextID,
          created, disturbed>>

server == <<store, nextID, created, disturbed>>

\* main's apiToken
ApiToken == "YOUR_SEREVE_KEY"

NoArg == [template |-> ZeroTemplate, id |-> 0, offset |-> 0, count |-> 0]
NoURL == [route |-> "", a |-> 0, b |-> 0]
NoReq == [method |-> "", url |-> NoURL, body |-> JNull,
          header |-> [Accept |-> "", ContentType |-> "", Token |-> ""]]
NoResp == [neterr |-> FALSE, status |-> 0, body |-> PlainBody("")]
NoResult == [val |-> [k |-> "none"], err |-> NilErr]

\* Values an operation returns beside its error.
Void == [k |-> "none"]
Nil == [k |-> "nil"]
ID(n) == [k |-> "id", id |-> n]
Ptr(t) == [k |-> "tmpl", t |-> t]

\* ------------------------------------------------------ building requests

\* http.NewRequest fails on a method that is no valid token (and on a URL it
\* cannot parse: the URLs here are fixed text and %d of an integer).
ValidMethod(method) == method \in {"GET", "POST", "PUT", "DELETE"}

\* http.NewRequest followed by the req.Header.Set calls; mutating requests
\* carry a body and a Content-Type.
NewRequest(method, url, body, token) ==
    [method |-> method, url |-> url, body |-> body,
     header |-> [Accept |-> "application/json",
                 ContentType |-> IF body = JNull THEN ""
                                 ELSE "application/json",
                 Token |-> token]]

\* The request each operation builds from its arguments.
BuildRequest(o, a) ==
    CASE o = "CreateTemplate" ->
           NewRequest("POST", [route |-> "templates", a |-> 0, b |-> 0],
                      Marshal(a.template), ApiToken)
      [] o = "GetTemplate" ->
           NewRequest("GET", [route |-> "templates/%d", a |-> a.id, b |-> 0],
                      JNull, ApiToken)
      [] o = "UpdateTemplate" ->
           NewRequest("PUT", [route |-> "templates/%d",
                              a |-> a.template.templateID, b |-> 0],
                      Marshal(a.template), ApiToken)
      [] o = "DeleteTemplate" ->
           NewRequest("DELETE", [route |-> "templates/%d", a |-> a.id,
                                 b |-> 0],
                      JNull, ApiToken)
      [] o = "GetTemplates" ->
           NewRequest("GET", [route |-> "templates?offset=%d&count=%d",
                              a |-> a.offset, b |-> a.count],
                      JNull, ApiToken)
      [] OTHER ->
           NewRequest("POST", [route |-> "templates/validate", a |-> 0,
                               b |-> 0],
                      Marshal(a.template), ApiToken)

\* What an operation returns when its request cannot be built.
BuildFailure(o) ==
    [val |-> CASE o = "CreateTemplate" -> ID(0)
               [] o \in {"GetTemplate", "GetTemplates"} -> Nil
               [] OTHER -> Void,
     err |-> Errorf("failed to create request: %w", <<"net/http: invalid method">>)]

\* Caller p is between operations and may make one more of its max calls.
Ready(p, max) == pc[p] \in {"idle", "done"} /\ calls[p] < max

\* The entry of an operation up to client.Do, with the request r it builds:
\* caller p invokes o with arguments a.
InvokeWith(p, o, a, r) ==
    /\ calls' = [calls EXCEPT ![p] = @ + 1]
    /\ op' = [op EXCEPT ![p] = o]
    /\ arg' = [arg EXCEPT ![p] = a]
    /\ resp' = [resp EXCEPT ![p] = NoResp]
    /\ IF ValidMethod(r.method)
       THEN /\ req' = [req EXCEPT ![p] = r]
            /\ result' = [result EXCEPT ![p] = NoResult]
            /\ pc' = [pc EXCEPT ![p] = "built"]
       ELSE /\ req' = [req EXCEPT ![p] = NoReq]
            /\ result' = [result EXCEPT ![p] = BuildFailure(o)]
            /\ pc' = [pc EXCEPT ![p] = "done"]
    /\ UNCHANGED <<sent, server>>

Invoke(p, o, a) == InvokeWith(p, o, a, BuildRequest(o, a))

\* ------------------------------------------------- handling the response

\* Response as it would be were the response kept in one package-level
\* variable that every caller's client.Do assigns.
ResponseShared(p) == resp["p1"]

\* The response this caller's client.Do returned (a local variable).
Response(p) == resp[p]

\* StatusIsOK as it would be were every 2xx status taken for success.
StatusIs2xx(r) == r.status \in 200..299

\* resp.StatusCode != http.StatusOK, negated.
StatusIsOK(r) == r.status = StatusOK

SendError == Errorf("failed to send request: %w", <<"net error">>)

TransportError(r) ==
    Errorf("unexpected status code: %d, response: %s",
           <<r.status, ReadAll(r.body)>>)

DecodeError(e) == Errorf("failed to decode response: %w", <<e>>)

\* CreateTemplateDecoded as it would be without the check of ErrorCode.
CreateTemplateDecodedUnchecked(d) ==
    IF d.err # "" THEN [val |-> ID(0), err |-> DecodeError(d.err)]
    ELSE [val |-> ID(d.v.templateID), err |-> NilErr]

\* CreateTemplate after a decode that gave d (lines 68-76).
CreateTemplateDecoded(d) ==
    IF d.err # "" THEN [val |-> ID(0), err |-> DecodeError(d.err)]
    ELSE IF d.v.errorCode # 0
         THEN [val |-> ID(0),
               err |-> Errorf("failed to create template: %s", <<d.v.message>>)]
         ELSE [val |-> ID(d.v.templateID), err |-> NilErr]

\* CreateTemplate from the return of client.Do on.
CreateTemplateOutcome(r) ==
    IF r.neterr THEN [val |-> ID(0), err |-> SendError]
    ELSE IF ~StatusIsOK(r) THEN [val |-> ID(0), err |-> TransportError(r)]
    ELSE CreateTemplateDecoded(Decode(r.body, "PostmarkResponse"))

\* GetTemplate after a decode that gave d (lines 105-109).
GetTemplateDecoded(d) ==
    IF d.err # "" THEN [val |-> Nil, err |-> DecodeError(d.err)]
    ELSE [val |-> Ptr(d.v), err |-> NilErr]

\* GetTemplate from the return of client.Do on.
GetTemplateOutcome(r) ==
    IF r.neterr THEN [val |-> Nil, err |-> SendError]
    ELSE IF ~StatusIsOK(r) THEN [val |-> Nil, err |-> TransportError(r)]
    ELSE GetTemplateDecoded(Decode(r.body, "Template"))

\* UpdateTemplate after a decode that gave d (lines 143-151).
UpdateTemplateDecoded(d) ==
    IF d.err # "" THEN [val |-> Void, err |-> DecodeError(d.err)]
    ELSE IF d.v.errorCode # 0
         THEN [val |-> Void,
               err |-> Errorf("failed to update template: %s", <<d.v.message>>)]
         ELSE [val |-> Void, err |-> NilErr]

\* UpdateTemplate from the return of client.Do on.
UpdateTemplateOutcome(r) ==
    IF r.neterr THEN [val |-> Void, err |-> SendError]
    ELSE IF ~StatusIsOK(r) THEN [val |-> Void, err |-> TransportError(r)]
    ELSE UpdateTemplateDecoded(Decode(r.body, "PostmarkResponse"))

\* DeleteTemplateOutcome as it would be were the body decoded and its
\* ErrorCode checked, as UpdateTemplate does.
DeleteTemplateOutcomeChecked(r) ==
    IF r.neterr THEN [val |-> Void, err |-> SendError]
    ELSE IF ~StatusIsOK(r) THEN [val |-> Void, err |-> TransportError(r)]
    ELSE UpdateTemplateDecoded(Decode(r.body, "PostmarkResponse"))

\* DeleteTemplate from the return of client.Do on: the body of a 200 response
\* is not read.
DeleteTemplateOutcome(r) ==
    IF r.neterr THEN [val |-> Void, err |-> SendError]
    ELSE IF ~StatusIsOK(r) THEN [val |-> Void, err |-> TransportError(r)]
    ELSE [val |-> Void, err |-> NilErr]

\* GetTemplates after a decode that gave d (lines 208-212): the Templates
\* field of the TemplatesResponse is returned, its TotalCount is not.
GetTemplatesDecoded(d) ==
    IF d.err # "" THEN [val |-> Nil, err |-> DecodeError(d.err)]
    ELSE [val |-> d.v.templates, err |-> NilErr]

\* GetTemplates from the return of client.Do on.
GetTemplatesOutcome(r) ==
    IF r.neterr THEN [val |-> Nil, err |-> SendError]
    ELSE IF ~StatusIsOK(r) THEN [val |-> Nil, err |-> TransportError(r)]
    ELSE GetTemplatesDecoded(Decode(r.body, "TemplatesResponse"))

\* ValidateTemplateOutcome as it would be were the body decoded and its
\* ErrorCode checked, as UpdateTemplate does.
ValidateTemplateOutcomeChecked(r) ==
    IF r.neterr THEN [val |-> Void, err |-> SendError]
    ELSE IF ~StatusIsOK(r) THEN [val |-> Void, err |-> TransportError(r)]
    ELSE UpdateTemplateDecoded(Decode(r.body, "PostmarkResponse"))

\* ValidateTemplate from the return of client.Do on: the body of a 200
\* response is not read.
ValidateTemplateOutcome(r) ==
    IF r.neterr THEN [val |-> Void, err |-> SendError]
    ELSE IF ~StatusIsOK(r) THEN [val |-> Void, err |-> TransportError(r)]
    ELSE [val |-> Void, err |-> NilErr]

\* main's "Total Templates: %d": the only count a caller of GetTemplates has.
TotalTemplates(res) == IF res.val.k = "list" THEN Len(res.val.l) ELSE 0

\* Caller p is in operation o and its client.Do has returned.
Responded(p, o) == pc[p] = "responded" /\ op[p] = o

\* The operation returns res to its caller.
Return(p, res) ==
    /\ result' = [result EXCEPT ![p] = res]
    /\ pc' = [pc EXCEPT ![p] = "done"]
    /\ UNCHANGED <<op, arg, req, resp, calls, sent, server>>

\* ------------------------------------------------------------ operations

\* Each operation is two steps around its client.Do: the call, which builds
\* the request, and the rest, which turns the response into the result.

CreateTemplateCall(p, t, max) ==
    /\ Ready(p, max)
    /\ Invoke(p, "CreateTemplate", [NoArg EXCEPT !.template = t])

CreateTemplate(p) ==
    /\ Responded(p, "CreateTemplate")
    /\ Return(p, CreateTemplateOutcome(Response(p)))

GetTemplateCall(p, id, max) ==
    /\ Ready(p, max)
    /\ Invoke(p, "GetTemplate", [NoArg EXCEPT !.id = id])

GetTemplate(p) ==
    /\ Responded(p, "GetTemplate")
    /\ Return(p, GetTemplateOutcome(Response(p)))

UpdateTemplateCall(p, t, max) ==
    /\ Ready(p, max)
    /\ Invoke(p, "UpdateTemplate", [NoArg EXCEPT !.template = t])

UpdateTemplate(p) ==
    /\ Responded(p, "UpdateTemplate")
    /\ Return(p, UpdateTemplateOutcome(Response(p)))

DeleteTemplateCall(p, id, max) ==
    /\ Ready(p, max)
    /\ Invoke(p, "DeleteTemplate", [NoArg EXCEPT !.id = id])

DeleteTemplate(p) ==
    /\ Responded(p, "DeleteTemplate")
    /\ Return(p, DeleteTemplateOutcome(Response(p)))

GetTemplatesCall(p, offset, count, max) ==
    /\ Ready(p, max)
    /\ Invoke(p, "GetTemplates",
              [NoArg EXCEPT !.offset = offset, !.count = count])

GetTemplates(p) ==
    /\ Responded(p, "GetTemplates")
    /\ Return(p, GetTemplatesOutcome(Response(p)))

ValidateTemplateCall(p, t, max) ==
    /\ Ready(p, max)
    /\ Invoke(p, "ValidateTemplate", [NoArg EXCEPT !.template = t])

ValidateTemplate(p) ==
    /\ Responded(p, "ValidateTemplate")
    /\ Return(p, ValidateTemplateOutcome(Response(p)))

\* ------------------------------------------- the remote service, arbitrary

\* A Template with the four texts given.
NewTemplate(name, subject, html, text) ==
    [ZeroTemplate EXCEPT !.name = name, !.subject = subject,
                         !.htmlBody = html, !.textBody = text]

PasswordReset ==
    NewTemplate(<<"Password Reset">>, <<"Reset your password">>,
                <<"<", "p", ">", "&", "<", "/", "p", ">">>, <<"Click">>)

\* The wire form of a template as the service sends it.
WireTemplate(id, t) ==
    JObj("TemplateId" :> JNum(id)
         @@ "Name" :> JStr(EncodeString(t.name))
         @@ "Subject" :> JStr(EncodeString(t.subject))
         @@ "HtmlBody" :> JStr(EncodeString(t.htmlBody))
         @@ "TextBody" :> JStr(EncodeString(t.textBody))
         @@ "Active" :> JBool(TRUE))

\* Response bodies the service may send.
BodyNotFound == PlainBody("404 page not found")
BodyOK ==
    JSONBody(JObj("templateID" :> JNum(7) @@ "errorCode" :> JNum(0)
                  @@ "message" :> JStr(<<"OK">>)))
BodyInvalid ==
    JSONBody(JObj("templateID" :> JNum(7) @@ "errorCode" :> JNum(1001)
                  @@ "message" :> JStr(<<"Invalid template">>)))
BodyPostmarkError ==
    JSONBody(JObj("ErrorCode" :> JNum(1101)
                  @@ "Message" :> JStr(<<"not found or invalid request">>)))
BodyMistyped ==
    JSONBody(JObj("templateID" :> JStr(<<"7">>)
                  @@ "templates" :> JStr(<<"none">>)))
BodyTemplate == JSONBody(WireTemplate(7, PasswordReset))
BodyList ==
    JSONBody(JObj("Templates" :> JArr(<<WireTemplate(7, PasswordReset)>>)
                  @@ "TotalCount" :> JNum(3)))
BodyNull == JSONBody(JNull)
BodyOKThen == JSONBodyThen(BodyOK.v)

Bodies == {BodyNotFound, BodyOK, BodyInvalid, BodyPostmarkError,
           BodyMistyped, BodyTemplate, BodyList, BodyNull, BodyOKThen}

\* Responses the service may send: every body with status 200, and with other
\* statuses a body that is no JSON, an error body, and a body that would
\* decode to a success.
Responses ==
    {[neterr |-> FALSE, status |-> StatusOK, body |-> b] : b \in Bodies}
    \cup {[neterr |-> FALSE, status |-> 422, body |-> b] :
             b \in {BodyNotFound, BodyPostmarkError, BodyOK}}
    \cup {[neterr |-> FALSE, status |-> 201, body |-> BodyOK]}
    \cup {[neterr |-> TRUE, status |-> 0, body |-> PlainBody("")]}

\* Sendable as it would be were a request that failed in the network sent
\* again.
SendableAgain(p) ==
    pc[p] = "built" \/ (pc[p] = "responded" /\ resp[p].neterr)

\* The one place an operation calls client.Do: after building its request.
Sendable(p) == pc[p] = "built"

\* client.Do(req): the request leaves, and an error or a response comes back.
Do(p) ==
    /\ Sendable(p)
    /\ sent' = [sent EXCEPT ![p] = @ + 1]
    /\ \E r \in Responses : resp' = [resp EXCEPT ![p] = r]
    /\ pc' = [pc EXCEPT ![p] = "responded"]
    /\ UNCHANGED <<op, arg, req, result, calls, server>>

\* Arguments of the callers under Spec.
Templates == {PasswordReset}
Stored == {[PasswordReset EXCEPT !.templateID = 7]}
IDs == {7}
Pages == {<<0, 10>>, <<-1, 0>>}

Init ==
    /\ pc = [p \in Procs |-> "idle"]
    /\ op = [p \in Procs |-> ""]
    /\ arg = [p \in Procs |-> NoArg]
    /\ req = [p \in Procs |-> NoReq]
    /\ resp = [p \in Procs |-> NoResp]
    /\ result = [p \in Procs |-> NoResult]
    /\ calls = [p \in Procs |-> 0]
    /\ sent = [p \in Procs |-> 0]
    /\ store = <<>>
    /\ nextID = 1
    /\ created = <<>>
    /\ disturbed = {}

Next ==
    \E p \in Procs :
        \/ \E t \in Templates : CreateTemplateCall(p, t, MaxCalls)
        \/ \E id \in IDs : GetTemplateCall(p, id, MaxCalls)
        \/ \E t \in Stored : UpdateTemplateCall(p, t, MaxCalls)
        \/ \E id \in IDs : DeleteTemplateCall(p, id, MaxCalls)
        \/ \E pg \in Pages : GetTemplatesCall(p, pg[1], pg[2], MaxCalls)
        \/ \E t \in Templates : ValidateTemplateCall(p, t, MaxCalls)
        \/ Do(p)
        \/ CreateTemplate(p)
        \/ GetTemplate(p)
        \/ UpdateTemplate(p)
        \/ DeleteTemplate(p)
        \/ GetTemplates(p)
        \/ ValidateTemplate(p)

Spec == Init /\ [][Next]_vars

\* ------------------------------------------ the remote service, simulated

\* A test double of the service: it stores the templates it receives under
\* ids it assigns, and answers with Postmark's capitalised keys.

\* The value object o holds for a field, whatever the case of its key.
Field(o, tag) ==
    IF KeysFor(o, tag) = {} THEN JNull ELSE o[CHOOSE k \in KeysFor(o, tag) : TRUE]

\* What the service keeps of a template sent to it.
Record(o) ==
    [Name |-> Field(o, "Name"), Subject |-> Field(o, "Subject"),
     HtmlBody |-> Field(o, "HtmlBody"), TextBody |-> Field(o, "TextBody"),
     Alias |-> Field(o, "Alias"),
     Active |-> IF Field(o, "Active") = JNull THEN JBool(FALSE)
                ELSE Field(o, "Active")]

\* The service takes a template that has a name.
Acceptable(o) == Field(o, "Name").t = "str" /\ Field(o, "Name").s # <<>>

ServiceError(status, code, message) ==
    [neterr |-> FALSE, status |-> status,
     body |-> JSONBody(JObj("ErrorCode" :> JNum(code)
                            @@ "Message" :> JStr(<<message>>)))]

ServiceOK(v) == [neterr |-> FALSE, status |-> 200, body |-> JSONBody(v)]

\* The stored template id as the service sends it.
Sent(st, id) == JObj(("TemplateId" :> JNum(id)) @@ st[id])

\* The ids of the store in ascending order.
SortedIDs(st, nid) ==
    SelectSeq([i \in 1..(nid - 1) |-> i], LAMBDA i : i \in DOMAIN st)

\* The page of ids a list request asks for.
PageOf(ids, offset, count) ==
    SubSeq(ids, offset + 1,
           IF offset + count < Len(ids) THEN offset + count ELSE Len(ids))

\* The templates of the ids, as the service sends them.
Listing(st, ids) == JArr([i \in DOMAIN ids |-> Sent(st, ids[i])])

\* The service's answer to request r, and its store and next id after it.
\* [resp, store, nextID]
Serve(r, st, nid) ==
    CASE r.method = "POST" /\ r.url.route = "templates" ->
           IF Acceptable(r.body.o)
           THEN [resp |-> ServiceOK(JObj("TemplateId" :> JNum(nid)
                                         @@ "Name" :> Field(r.body.o, "Name")
                                         @@ "Active" :> JBool(TRUE))),
                 store |-> (nid :> Record(r.body.o)) @@ st,
                 nextID |-> nid + 1]
           ELSE [resp |-> ServiceError(422, 1120, "A name is required"),
                 store |-> st, nextID |-> nid]
      [] r.method = "GET" /\ r.url.route = "templates/%d" ->
           [resp |-> IF r.url.a \in DOMAIN st
                     THEN ServiceOK(Sent(st, r.url.a))
                     ELSE ServiceError(422, 1101, "Template not found"),
            store |-> st, nextID |-> nid]
      [] r.method = "PUT" /\ r.url.route = "templates/%d" ->
           IF r.url.a \in DOMAIN st /\ Acceptable(r.body.o)
           THEN [resp |-> ServiceOK(JObj("TemplateId" :> JNum(r.url.a)
                                         @@ "Name" :> Field(r.body.o, "Name")
                                         @@ "Active" :> JBool(TRUE))),
                 store |-> [st EXCEPT ![r.url.a] = Record(r.body.o)],
                 nextID |-> nid]
           ELSE [resp |-> ServiceError(422, 1101, "Template not found"),
                 store |-> st, nextID |-> nid]
      [] r.method = "DELETE" /\ r.url.route = "templates/%d" ->
           IF r.url.a \in DOMAIN st
           THEN [resp |-> ServiceError(200, 0, "Template removed"),
                 store |-> [i \in DOMAIN st \ {r.url.a} |-> st[i]],
                 nextID |-> nid]
           ELSE [resp |-> ServiceError(200, 1101, "Template not found"),
                 store |-> st, nextID |-> nid]
      [] r.method = "GET" /\ r.url.route = "templates?offset=%d&count=%d" ->
           [resp |-> IF r.url.a < 0 \/ r.url.b <= 0
                     THEN ServiceError(422, 300, "Invalid offset or count")
                     ELSE ServiceOK(JObj(
                              "TotalCount" :> JNum(Cardinality(DOMAIN st))
                              @@ "Templates" :>
                                  Listing(st, PageOf(SortedIDs(st, nid),
                                                     r.url.a, r.url.b)))),
            store |-> st, nextID |-> nid]
      [] OTHER ->
           [resp |-> ServiceOK(JObj("AllContentIsValid" :> JBool(TRUE))),
            store |-> st, nextID |-> nid]

\* client.Do(req) against the simulated service, which answers with out.
DoSimWith(p, out) ==
    /\ sent' = [sent EXCEPT ![p] = @ + 1]
    /\ resp' = [resp EXCEPT ![p] = out.resp]
    /\ store' = out.store
    /\ nextID' = out.nextID
    /\ created' = IF out.nextID # nextID
                  THEN (nextID :> arg[p].template) @@ created
                  ELSE created
    /\ disturbed' = IF req[p].method \in {"PUT", "DELETE"}
                    THEN disturbed \cup {req[p].url.a}
                    ELSE disturbed
    /\ pc' = [pc EXCEPT ![p] = "responded"]
    /\ UNCHANGED <<op, arg, req, result, calls>>

DoSim(p) ==
    /\ Sendable(p)
    /\ DoSimWith(p, Serve(req[p], store, nextID))

\* Arguments of the caller under SimSpec.
Welcome ==
    NewTemplate(<<"W">>, <<"Hi">>, <<"<", "b", ">">>, <<"\"", "&">>)
Broken == NewTemplate(<<"xFF">>, <<"Hi">>, <<>>, <<>>)
Unnamed == NewTemplate(<<>>, <<"Hi">>, <<>>, <<>>)
SimTemplates == {Welcome, PasswordReset, Broken, Unnamed}
SimIDs == {1, 2}
SimStored == {[Welcome EXCEPT !.templateID = id, !.subject = <<"Changed">>] :
                 id \in SimIDs}
SimPages == {<<0, 10>>, <<1, 1>>, <<-1, 0>>}

NextSim ==
    \E p \in SimProcs :
        \/ \E t \in SimTemplates : CreateTemplateCall(p, t, MaxSimCalls)
        \/ \E id \in SimIDs : GetTemplateCall(p, id, MaxSimCalls)
        \/ \E t \in SimStored : UpdateTemplateCall(p, t, MaxSimCalls)
        \/ \E id \in SimIDs : DeleteTemplateCall(p, id, MaxSimCalls)
        \/ \E pg \in SimPages :
               GetTemplatesCall(p, pg[1], pg[2], MaxSimCalls)
        \/ \E t \in SimTemplates : ValidateTemplateCall(p, t, MaxSimCalls)
        \/ DoSim(p)
        \/ CreateTemplate(p)
        \/ GetTemplate(p)
        \/ UpdateTemplate(p)
        \/ DeleteTemplate(p)
        \/ GetTemplates(p)
        \/ ValidateTemplate(p)

SimSpec == Init /\ [][NextSim]_vars

\* ---------------------------------------------------------------- claims

\* Caller p's operation has returned after its request was answered with an
\* HTTP response.
Answered(p) == pc[p] = "done" /\ req[p] # NoReq /\ ~resp[p].neterr

\* What an operation returns beside a non-nil error.
FailureValue(o) ==
    CASE o = "CreateTemplate" -> ID(0)
      [] o \in {"GetTemplate", "GetTemplates"} -> Nil
      [] OTHER -> Void

IsError(e, format) == e.k = "err" /\ e.fmt = format

IsTransportError(e, r) ==
    /\ IsError(e, "unexpected status code: %d, response: %s")
    /\ e.args = <<r.status, r.body>>

IsDecodeError(e) == IsError(e, "failed to decode response: %w")

IsRemoteError(e, o, message) ==
    /\ IsError(e, IF o = "CreateTemplate" THEN "failed to create template: %s"
                  ELSE "failed to update template: %s")
    /\ e.args = <<message>>

\* The body holds, for struct type PostmarkResponse, a nonzero errorCode.
CarriesErrorCode(body) ==
    /\ Decode(body, "PostmarkResponse").err = ""
    /\ Decode(body, "PostmarkResponse").v.errorCode # 0

MessageOf(body) == Decode(body, "PostmarkResponse").v.message

\* C1: every operation answered with a status other than 200 returns a
\* Transport Error carrying that status and the body as received, and no
\* success value, whatever the body holds.
C1_NonOKIsTransportError ==
    \A p \in Procs :
        Answered(p) /\ resp[p].status # 200 =>
            /\ IsTransportError(result[p].err, resp[p])
            /\ result[p].val = FailureValue(op[p])

\* C1's case: a non-200 answer whose body is JSON with errorCode 0, and one
\* whose body is no JSON at all, both returned as Transport Errors.
C1_Witness ==
    \E p, q \in Procs :
        /\ Answered(p) /\ op[p] = "CreateTemplate"
        /\ resp[p].status = 201 /\ resp[p].body = BodyOK
        /\ result[p].err.k = "err" /\ result[p].val = ID(0)
        /\ Answered(q) /\ op[q] = "DeleteTemplate"
        /\ resp[q].status = 422 /\ resp[q].body = BodyNotFound
        /\ result[q].err.k = "err"

\* C2: CreateTemplate and UpdateTemplate answered 200 with a body that decodes
\* to a nonzero errorCode fail with a Remote Error holding the body's message;
\* Create returns id 0, not the body's templateID.
C2_NonzeroErrorCodeIsRemoteError ==
    \A p \in Procs :
        /\ Answered(p) /\ resp[p].status = 200
        /\ op[p] \in {"CreateTemplate", "UpdateTemplate"}
        /\ CarriesErrorCode(resp[p].body)
        => /\ IsRemoteError(result[p].err, op[p], MessageOf(resp[p].body))
           /\ result[p].val = FailureValue(op[p])
           /\ resp[p].body = BodyInvalid =>
                  result[p].err.args = <<Str("Invalid template")>>

\* C2's case: Create answered 200 with errorCode 1001, "Invalid template" and
\* a nonzero templateID.
C2_Witness ==
    \E p \in Procs :
        /\ Answered(p) /\ op[p] = "CreateTemplate"
        /\ resp[p].status = 200 /\ resp[p].body = BodyInvalid
        /\ BodyInvalid.v.o["templateID"].n # 0
        /\ result[p].val = ID(0)

\* C3: DeleteTemplate answered 200 returns a nil error whatever the body
\* holds, a nonzero embedded error code included.
C3_DeleteIgnoresBody ==
    \A p \in Procs :
        Answered(p) /\ op[p] = "DeleteTemplate" /\ resp[p].status = 200 =>
            result[p] = [val |-> Void, err |-> NilErr]

\* C3's case: Delete answered 200 with a nonzero error code in the body.
C3_Witness ==
    \E p \in Procs :
        /\ Answered(p) /\ op[p] = "DeleteTemplate"
        /\ resp[p].status = 200 /\ CarriesErrorCode(resp[p].body)
        /\ result[p].err = NilErr

\* C4 as stated: ValidateTemplate answered 200 with a body that decodes to a
\* nonzero error code fails with a Remote Error holding the body's message.
C4_ValidateRemoteError ==
    \A p \in Procs :
        /\ Answered(p) /\ op[p] = "ValidateTemplate" /\ resp[p].status = 200
        /\ CarriesErrorCode(resp[p].body)
        => /\ result[p].err.k = "err"
           /\ result[p].err.args = <<MessageOf(resp[p].body)>>

\* C4 amended: only CreateTemplate and UpdateTemplate turn a nonzero embedded
\* error code of a 200 response into a Remote Error; ValidateTemplate returns
\* a nil error for every 200 response.
C4_ValidateIgnoresBody ==
    \A p \in Procs :
        Answered(p) /\ resp[p].status = 200 =>
            /\ op[p] = "ValidateTemplate" =>
                   result[p] = [val |-> Void, err |-> NilErr]
            /\ op[p] \in {"CreateTemplate", "UpdateTemplate"}
               /\ CarriesErrorCode(resp[p].body) =>
                   IsRemoteError(result[p].err, op[p],
                                 MessageOf(resp[p].body))

\* C4's case: Validate answered 200 with a nonzero error code in the body.
C4_Witness ==
    \E p \in Procs :
        /\ Answered(p) /\ op[p] = "ValidateTemplate"
        /\ resp[p].status = 200 /\ resp[p].body = BodyPostmarkError
        /\ result[p].err = NilErr

\* The JSON type each field of a struct type takes, by folded key.
FieldTypes(shape) ==
    CASE shape = "Template" ->
           [k \in {"templateid", "name", "subject", "htmlbody", "textbody",
                   "alias", "active"} |->
               IF k = "templateid" THEN "num"
               ELSE IF k = "active" THEN "bool" ELSE "str"]
      [] shape = "PostmarkResponse" ->
           [k \in {"templateid", "errorcode", "message"} |->
               IF k = "message" THEN "str" ELSE "num"]
      [] OTHER ->
           [k \in {"templates", "totalcount"} |->
               IF k = "templates" THEN "arr" ELSE "num"]

\* The body does not begin with a JSON value of the struct type shape: it is
\* no JSON, or its first value is neither null nor an object, or a key of the
\* object that names a field holds a value of another type.
Unparseable(body, shape) ==
    \/ ~body.json
    \/ body.v.t \notin {"null", "obj"}
    \/ /\ body.v.t = "obj"
       /\ \E k \in DOMAIN body.v.o :
              /\ Fold(k) \in DOMAIN FieldTypes(shape)
              /\ body.v.o[k].t \notin {"null", FieldTypes(shape)[Fold(k)]}

\* The struct type an operation expects in the body of a 200 response.
ExpectedShape(o) ==
    CASE o = "GetTemplate" -> "Template"
      [] o = "GetTemplates" -> "TemplatesResponse"
      [] OTHER -> "PostmarkResponse"

\* C5 as stated: every operation answered 200 with a body that does not parse
\* as the shape it expects fails with a Decode Error.
C5_UnparseableIsDecodeError ==
    \A p \in Procs :
        /\ Answered(p) /\ resp[p].status = 200
        /\ Unparseable(resp[p].body, ExpectedShape(op[p]))
        => IsDecodeError(result[p].err)

\* C5 amended: CreateTemplate, GetTemplate, UpdateTemplate and GetTemplates
\* answered 200 with a body that does not begin with a JSON value of the
\* expected shape fail with a Decode Error and no success value;
\* DeleteTemplate and ValidateTemplate do not read the body and succeed.
C5_DecodingOperations ==
    \A p \in Procs :
        /\ Answered(p) /\ resp[p].status = 200
        /\ Unparseable(resp[p].body, ExpectedShape(op[p]))
        => IF op[p] \in {"DeleteTemplate", "ValidateTemplate"}
           THEN result[p].err = NilErr
           ELSE /\ IsDecodeError(result[p].err)
                /\ result[p].val = FailureValue(op[p])

\* C5's case: Get answered 200 with a body holding a string where a number
\* is expected, and Delete answered 200 with a body that is no JSON.
C5_Witness ==
    \E p, q \in Procs :
        /\ Answered(p) /\ op[p] = "GetTemplate"
        /\ resp[p].status = 200 /\ resp[p].body = BodyMistyped
        /\ IsDecodeError(result[p].err)
        /\ Answered(q) /\ op[q] = "DeleteTemplate"
        /\ resp[q].status = 200 /\ resp[q].body = BodyNotFound
        /\ result[q].err = NilErr

\* C6 as stated: a GetTemplates answered 200 with a body that decodes gives
\* its caller the templates in the order sent and the server's totalCount.
C6_ListReturnsTotalCount ==
    \A p \in Procs :
        /\ Answered(p) /\ op[p] = "GetTemplates" /\ resp[p].status = 200
        /\ Decode(resp[p].body, "TemplatesResponse").err = ""
        => /\ result[p].err = NilErr
           /\ result[p].val =
                  Decode(resp[p].body, "TemplatesResponse").v.templates
           /\ TotalTemplates(result[p]) =
                  Decode(resp[p].body, "TemplatesResponse").v.totalCount

\* C7 as stated: a GetTemplates with count = 0 or offset < 0 that the service
\* answers with an error, as a status other than 200 or as a 200 body holding
\* a nonzero errorCode, returns a non-nil error.
C7_ListSurfacesError ==
    \A p \in Procs :
        /\ Answered(p) /\ op[p] = "GetTemplates"
        /\ arg[p].count = 0 \/ arg[p].offset < 0
        /\ resp[p].status # 200 \/ CarriesErrorCode(resp[p].body)
        => result[p].err # NilErr

ValidUTF8(str) == \A i \in DOMAIN str : str[i] # "xFF"

\* A Template fit for creation: no id yet, a name and a subject, texts in
\* UTF-8.
ValidTemplate(t) ==
    /\ t.templateID = 0 /\ t.name # <<>> /\ t.subject # <<>>
    /\ ValidUTF8(t.name) /\ ValidUTF8(t.subject)
    /\ ValidUTF8(t.htmlBody) /\ ValidUTF8(t.textBody)

====
